---- MODULE Spec2Model ----
(***************************************************************************)
(* API Klasifikasi Cabai (main.py): the upload handler, the four read      *)
(* handlers, the blob directory "uploads" and the table "klasifikasi".     *)
(*                                                                         *)
(* upload_data is an `async def` without any await: once the event loop    *)
(* has entered it, no other coroutine runs until it returns.  The read     *)
(* handlers are plain `def`: the framework runs them on worker threads,    *)
(* so their queries interleave with the steps of an upload.  Every request *)
(* gets its own Session (get_db); the queries of one Session run in one    *)
(* transaction, which MySQL/InnoDB serves from the snapshot taken by the   *)
(* transaction's first read (REPEATABLE READ, the engine's default: the    *)
(* code passes no isolation_level to create_engine).                       *)
(*                                                                         *)
(* Every file and database call of upload_data can raise: each has a       *)
(* failing twin (OpenFileFails, CopyChunkFails, CommitFails,               *)
(* RefreshFails) that ends the handler in `except Exception` with 500.     *)
(*                                                                         *)
(* Bytes are abstracted to chunks <<r, i, n>>: chunk i of the n chunks of  *)
(* the body of upload request r.  created_at/updated_at are left out.      *)
(* Percentages are in hundredths of a percent (66.67 is 6667).             *)
(*                                                                         *)
(* Specifications: SpecUpload (uploads alone, every file name and size,    *)
(* possibly an older file in the directory), Spec (uploads and             *)
(* GET /klasifikasi/{id}), SpecStatus (uploads and                         *)
(* GET /klasifikasi/status/{hasil}), SpecList (uploads and                 *)
(* GET /klasifikasi), SpecStat (uploads and GET /statistik).               *)
(***************************************************************************)
EXTENDS Integers, Sequences, FiniteSets, TLC

\* ------------------------------------------------------------------ bounds
\* upload requests of a run with a read handler
MaxUploads == 3
\* upload requests of a run of SpecUpload
MaxWriters == 2
\* chunks of a request body
MaxChunks == 2
\* the largest skip and limit asked of GET /klasifikasi
MaxSkip == 2
MaxLimit == 2

Labels == {-1, 0, 1, 2}
Ids == 1..(MaxUploads + 1)

\* ------------------------------------------------------------- file names
FileNames ==
    { <<"a", ".", "j", "p", "g">>,
      <<"b", ".", "x", ".", "P", "n", "G">>,
      <<"a", ".", "j", "p", "g", ".", "t", "x", "t">>,
      <<"b", "m", "p">> }

\* the names the specifications with a read handler upload under
OneName == { <<"a", ".", "j", "p", "g">> }

TwoNames == { <<"a", ".", "j", "p", "g">>, <<"b", ".", "x", ".", "P", "n", "G">> }

UPLOAD_DIR == <<"uploads">>

allowed_extensions ==
    { <<"j", "p", "g">>, <<"j", "p", "e", "g">>, <<"p", "n", "g">>, <<"b", "m", "p">> }

UpperCase ==
    <<"A", "B", "C", "D", "E", "F", "G", "H", "I", "J", "K", "L", "M",
      "N", "O", "P", "Q", "R", "S", "T", "U", "V", "W", "X", "Y", "Z">>

LowerCase ==
    <<"a", "b", "c", "d", "e", "f", "g", "h", "i", "j", "k", "l", "m",
      "n", "o", "p", "q", "r", "s", "t", "u", "v", "w", "x", "y", "z">>

\* str.lower() on one character
LowerChar(c) ==
    IF \E i \in 1..Len(UpperCase) : UpperCase[i] = c
    THEN LowerCase[CHOOSE i \in 1..Len(UpperCase) : UpperCase[i] = c]
    ELSE c

\* str.lower()
Lower(s) == [i \in 1..Len(s) |-> LowerChar(s[i])]

\* str.split("."): the components between the dots, left to right
RECURSIVE Split(_)
Split(s) ==
    IF \E i \in 1..Len(s) : s[i] = "."
    THEN LET i == CHOOSE k \in 1..Len(s) :
                      s[k] = "." /\ \A j \in 1..(k - 1) : s[j] # "."
         IN  <<SubSeq(s, 1, i - 1)>> \o Split(SubSeq(s, i + 1, Len(s)))
    ELSE <<s>>

\* LastOf with the wrong index: the component after the first dot, split(".")[1]
LastOf_Second(parts) == IF Len(parts) >= 2 THEN parts[2] ELSE parts[1]

\* parts[-1]
LastOf(parts) == parts[Len(parts)]

\* file.filename.split(".")[-1].lower()
file_extension(filename) == Lower(LastOf(Split(filename)))

\* f"{UPLOAD_DIR}/{file.filename}"
file_location(filename) == UPLOAD_DIR \o <<"/">> \o filename

Paths == { file_location(f) : f \in FileNames }

\* ------------------------------------------------------------------- state
VARIABLES
    blobs,      \* the directory uploads: path -> the file there (its chunks), or NoBlob
    records,    \* the committed rows of table klasifikasi
    nextId,     \* the table's AUTO_INCREMENT counter
    up,         \* per upload request: the handler's position and locals, then its response
    loop,       \* the upload handler the event loop is inside of, 0 when in none
    rd,         \* the read handler's position, locals and the Session's snapshot
    rdResp      \* the last exchange with a read handler: the request's argument, the response

vars == <<blobs, records, nextId, up, loop, rd, rdResp>>

\* the upload requests of a run, numbered as they are dispatched
Requests == DOMAIN up

NoBlob == [exists |-> FALSE, data |-> <<>>]
File(content) == [exists |-> TRUE, data |-> content]
Hole == <<-1, -1, -1>>
NoResp == [kind |-> "none", status |-> 0]

Fresh == [pc |-> "none", filename |-> <<>>, hasil |-> 0, n |-> 0, k |-> 0,
          newId |-> 0, resp |-> NoResp]

Returned(resp) == [Fresh EXCEPT !.pc = "done", !.resp = resp]

IdleReader == [pc |-> "idle", snap |-> {}, skip |-> 0, limit |-> 0, rows |-> <<>>,
               total |-> 0, sehat |-> 0]

\* "Sehat" if r.hasil == 1 else "Sakit"
LabelOf(hasil) == IF hasil = 1 THEN "Sehat" ELSE "Sakit"

\* the dict the handlers build from a row
Render(row) == [id |-> row.id, path |-> row.path, hasil |-> LabelOf(row.hasil)]

\* the process has started: no request yet, an empty table, an empty directory
Init ==
    /\ blobs = [p \in Paths |-> NoBlob]
    /\ records = {}
    /\ nextId = 1
    /\ up = [r \in 1..MaxUploads |-> Fresh]
    /\ loop = 0
    /\ rd = IdleReader
    /\ rdResp = NoResp

\* a file that was in uploads before the process started
OldFile == File(<<<<0, 1, 1>>>>)

OldName == <<"a", ".", "j", "p", "g", ".", "t", "x", "t">>

\* os.makedirs(UPLOAD_DIR, exist_ok=True): the directory may be there already,
\* with a file in it
InitUpload ==
    /\ blobs \in { [p \in Paths |-> NoBlob],
                   [p \in Paths |-> IF p = file_location(OldName) THEN OldFile ELSE NoBlob] }
    /\ records = {}
    /\ nextId = 1
    /\ up = [r \in 1..MaxWriters |-> Fresh]
    /\ loop = 0
    /\ rd = IdleReader
    /\ rdResp = NoResp

\* ------------------------------------------------------------ upload_data
\* LoopFree for a plain def: the handler runs on worker threads, several at a time
LoopFree_Threaded == TRUE

\* async def without await: the event loop enters one upload_data at a time
LoopFree == loop = 0

\* the framework has parsed the multipart body and calls upload_data(file, hasil)
UploadRequest(r, f, h, n) ==
    /\ LoopFree
    /\ up[r].pc = "none"
    /\ IF r = 1 THEN TRUE ELSE up[r - 1].pc # "none"
    /\ up' = [up EXCEPT ![r] = [Fresh EXCEPT !.pc = "validate", !.filename = f,
                                             !.hasil = h, !.n = n]]
    /\ loop' = r
    /\ UNCHANGED <<blobs, records, nextId, rd, rdResp>>

\* ExtensionAllowed without lower(): the extension is compared as typed
ExtensionAllowed_CaseSensitive(filename) ==
    LastOf(Split(filename)) \in allowed_extensions

\* file_extension not in allowed_extensions, negated
ExtensionAllowed(filename) == file_extension(filename) \in allowed_extensions

\* HasilAllowed with the check left out
HasilAllowed_Unchecked(hasil) == TRUE

\* hasil not in [0, 1], negated
HasilAllowed(hasil) == hasil \in {0, 1}

\* lines 95-110: the two validations, each raising HTTPException(400)
UploadValidate(r) ==
    /\ up[r].pc = "validate"
    /\ IF ~ExtensionAllowed(up[r].filename)
       THEN up' = [up EXCEPT ![r] = Returned([status |-> 400, detail |-> "file type"])]
       ELSE IF ~HasilAllowed(up[r].hasil)
       THEN up' = [up EXCEPT ![r] = Returned([status |-> 400, detail |-> "hasil"])]
       ELSE up' = [up EXCEPT ![r].pc = "open"]
    /\ loop' = IF up'[r].pc = "done" /\ loop = r THEN 0 ELSE loop
    /\ UNCHANGED <<blobs, records, nextId, rd, rdResp>>

\* except Exception: raise HTTPException(500)
Raise500(r) ==
    /\ up' = [up EXCEPT ![r] = Returned([status |-> 500])]
    /\ loop' = IF loop = r THEN 0 ELSE loop

\* open(file_location, "wb"): creates the file or truncates it to length 0
OpenFile(r) ==
    /\ up[r].pc = "open"
    /\ blobs' = [blobs EXCEPT ![file_location(up[r].filename)] = File(<<>>)]
    /\ up' = [up EXCEPT ![r].pc = "copy", ![r].k = 0]
    /\ UNCHANGED <<records, nextId, loop, rd, rdResp>>

\* open raises (no space, no permission): nothing is written
OpenFileFails(r) ==
    /\ up[r].pc = "open"
    /\ Raise500(r)
    /\ UNCHANGED <<blobs, records, nextId, rd, rdResp>>

\* write(chunk) at the writer's own file position `at` (0-based)
WriteAt(content, at, chunk) ==
    IF at < Len(content)
    THEN [content EXCEPT ![at + 1] = chunk]
    ELSE content \o [i \in 1..(at - Len(content)) |-> Hole] \o <<chunk>>

\* shutil.copyfileobj: one read/write round of its loop; after the last chunk
\* the with-block closes the file
CopyChunk(r) ==
    /\ up[r].pc = "copy"
    /\ up[r].k < up[r].n
    /\ LET p == file_location(up[r].filename)
       IN  blobs' = [blobs EXCEPT ![p] = File(WriteAt(blobs[p].data, up[r].k,
                                                      <<r, up[r].k + 1, up[r].n>>))]
    /\ up' = [up EXCEPT ![r].k = up[r].k + 1,
                        ![r].pc = IF up[r].k + 1 = up[r].n THEN "commit" ELSE "copy"]
    /\ UNCHANGED <<records, nextId, loop, rd, rdResp>>

\* a write raises: the with-block closes the file, what was written stays
CopyChunkFails(r) ==
    /\ up[r].pc = "copy"
    /\ up[r].k < up[r].n
    /\ Raise500(r)
    /\ UNCHANGED <<blobs, records, nextId, rd, rdResp>>

\* db.add(new_data); db.commit(): INSERT, which takes the next id, then COMMIT
Commit(r) ==
    /\ up[r].pc = "commit"
    /\ records' = records \cup
          {[id |-> nextId, path |-> file_location(up[r].filename), hasil |-> up[r].hasil]}
    /\ nextId' = nextId + 1
    /\ up' = [up EXCEPT ![r].pc = "refresh", ![r].newId = nextId]
    /\ UNCHANGED <<blobs, loop, rd, rdResp>>

\* db.commit() raises: before the INSERT took an id, or after it (the id is
\* then lost with the rolled-back row)
CommitFails(r, idTaken) ==
    /\ up[r].pc = "commit"
    /\ nextId' = IF idTaken THEN nextId + 1 ELSE nextId
    /\ Raise500(r)
    /\ UNCHANGED <<blobs, records, rd, rdResp>>

\* db.refresh(new_data), a SELECT by primary key, then return JSONResponse(201)
RefreshAndReturn(r) ==
    /\ up[r].pc = "refresh"
    /\ \E row \in records :
          /\ row.id = up[r].newId
          /\ up' = [up EXCEPT ![r] = Returned([status |-> 201, id |-> row.id,
                                   path |-> row.path, hasil |-> LabelOf(row.hasil)])]
    /\ loop' = IF loop = r THEN 0 ELSE loop
    /\ UNCHANGED <<blobs, records, nextId, rd, rdResp>>

\* db.refresh raises (the connection is lost after the COMMIT)
RefreshFails(r) ==
    /\ up[r].pc = "refresh"
    /\ Raise500(r)
    /\ UNCHANGED <<blobs, records, nextId, rd, rdResp>>

\* ------------------------------------------------------------ the Session
\* Visible under READ COMMITTED: every query reads the latest committed rows
Visible_ReadCommitted == records

\* the rows a query of the read handler's Session sees: the committed rows at
\* the transaction's first read, for every query of that transaction
Visible == IF rd.pc = "idle" THEN records ELSE rd.snap

\* order_by(Klasifikasi.id.desc())
RECURSIVE OrderByIdDesc(_)
OrderByIdDesc(rows) ==
    IF rows = {} THEN <<>>
    ELSE LET first == CHOOSE x \in rows : \A y \in rows : y.id <= x.id
         IN  <<first>> \o OrderByIdDesc(rows \ {first})

\* OffsetLimit off by one: the page starts one row late
OffsetLimit_OffByOne(seq, skip, limit) ==
    SubSeq(seq, skip + 2, IF skip + 1 + limit < Len(seq) THEN skip + 1 + limit ELSE Len(seq))

\* .offset(skip).limit(limit)
OffsetLimit(seq, skip, limit) ==
    SubSeq(seq, skip + 1, IF skip + limit < Len(seq) THEN skip + limit ELSE Len(seq))

\* the list comprehension over the rows
RenderAll(seq) == [i \in 1..Len(seq) |-> Render(seq[i])]

\* query.count()
Count(rows) == Cardinality(rows)

\* filter(Klasifikasi.hasil == hasil)
WithHasil(rows, hasil) == { row \in rows : row.hasil = hasil }

\* ------------------------------------------------------------ get_all_data
\* line 161: the page query, the first read of the Session
GetAllDataRecords(skip, limit) ==
    /\ rd.pc = "idle"
    /\ rd' = [IdleReader EXCEPT !.pc = "count", !.snap = records, !.skip = skip,
                                !.limit = limit,
                                !.rows = OffsetLimit(OrderByIdDesc(Visible), skip, limit)]
    /\ UNCHANGED <<blobs, records, nextId, up, loop, rdResp>>

\* line 162: the count query, then the response
GetAllDataCount ==
    /\ rd.pc = "count"
    /\ rdResp' = [kind |-> "list", status |-> 200, total_data |-> Count(Visible),
                  data |-> RenderAll(rd.rows)]
    /\ rd' = IdleReader
    /\ UNCHANGED <<blobs, records, nextId, up, loop>>

\* ------------------------------------------------------------ get_data_by_id
\* FirstWithId without the filter: first() of the whole table
FirstWithId_Any(rows, id) == rows

\* filter(Klasifikasi.id == id)
FirstWithId(rows, id) == { row \in rows : row.id = id }

\* lines 187-201: the query, 404 when it finds nothing, else the record
GetDataById(id) ==
    /\ rd.pc = "idle"
    /\ rdResp' = IF FirstWithId(Visible, id) # {}
                 THEN [kind |-> "by_id", request |-> id, status |-> 200,
                       data |-> Render(CHOOSE row \in FirstWithId(Visible, id) : TRUE)]
                 ELSE [kind |-> "by_id", request |-> id, status |-> 404]
    /\ UNCHANGED <<blobs, records, nextId, up, loop, rd>>

\* ------------------------------------------------------------ get_by_status
\* lines 209-231: 400 for a hasil other than 0 and 1, else the filtered list
GetByStatus(hasil) ==
    /\ rd.pc = "idle"
    /\ rdResp' = IF ~HasilAllowed(hasil)
                 THEN [kind |-> "by_status", request |-> hasil, status |-> 400]
                 ELSE LET result == RenderAll(OrderByIdDesc(WithHasil(Visible, hasil)))
                      IN  [kind |-> "by_status", request |-> hasil, status |-> 200,
                           filter |-> LabelOf(hasil), total_data |-> Len(result),
                           data |-> result]
    /\ UNCHANGED <<blobs, records, nextId, up, loop, rd>>

\* ------------------------------------------------------------ get_statistics
\* Round2 truncating: the quotient is cut to two decimals, not rounded
Round2_Truncate(part, total) == (part * 10000) \div total

\* round(part / total * 100, 2), in hundredths of a percent: the nearest
\* hundredth, a tie going to the even one
Round2(part, total) ==
    LET q == (part * 10000) \div total
        rest == (part * 10000) % total
    IN  IF 2 * rest < total THEN q
        ELSE IF 2 * rest > total THEN q + 1
        ELSE IF q % 2 = 0 THEN q ELSE q + 1

\* round((part / total * 100), 2) if total > 0 else 0
Persentase(part, total) == IF total > 0 THEN Round2(part, total) ELSE 0

\* line 239: the first count, the first read of the Session
GetStatisticsTotal ==
    /\ rd.pc = "idle"
    /\ rd' = [IdleReader EXCEPT !.pc = "sehat", !.snap = records,
                                !.total = Count(Visible)]
    /\ UNCHANGED <<blobs, records, nextId, up, loop, rdResp>>

\* line 240
GetStatisticsSehat ==
    /\ rd.pc = "sehat"
    /\ rd' = [rd EXCEPT !.pc = "sakit", !.sehat = Count(WithHasil(Visible, 1))]
    /\ UNCHANGED <<blobs, records, nextId, up, loop, rdResp>>

\* line 241 and the response
GetStatisticsSakit ==
    /\ rd.pc = "sakit"
    /\ LET sakit == Count(WithHasil(Visible, 0))
       IN  rdResp' = [kind |-> "statistik", status |-> 200,
                      total_data |-> rd.total,
                      status_sehat |-> rd.sehat,
                      status_sakit |-> sakit,
                      persentase_sehat |-> Persentase(rd.sehat, rd.total),
                      persentase_sakit |-> Persentase(sakit, rd.total)]
    /\ rd' = IdleReader
    /\ UNCHANGED <<blobs, records, nextId, up, loop>>

\* --------------------------------------------------------- specifications
\* the steps of upload_data, for request bodies of the names and sizes given
Upload(names, sizes) ==
    \/ \E r \in Requests, f \in names, h \in Labels, n \in sizes :
          UploadRequest(r, f, h, n)
    \/ \E r \in Requests : UploadValidate(r)
    \/ \E r \in Requests : OpenFile(r)
    \/ \E r \in Requests : OpenFileFails(r)
    \/ \E r \in Requests : CopyChunk(r)
    \/ \E r \in Requests : CopyChunkFails(r)
    \/ \E r \in Requests : Commit(r)
    \/ \E r \in Requests, idTaken \in BOOLEAN : CommitFails(r, idTaken)
    \/ \E r \in Requests : RefreshAndReturn(r)
    \/ \E r \in Requests : RefreshFails(r)

\* uploads alone, over every file name and size
NextUpload == Upload(FileNames, 1..MaxChunks)

SpecUpload == InitUpload /\ [][NextUpload]_vars

\* uploads with GET /klasifikasi/{id}
Next ==
    \/ Upload(TwoNames, {1})
    \/ \E id \in Ids : GetDataById(id)

Spec == Init /\ [][Next]_vars

\* uploads with GET /klasifikasi/status/{hasil}
NextStatus ==
    \/ Upload(OneName, {1})
    \/ \E h \in Labels : GetByStatus(h)

SpecStatus == Init /\ [][NextStatus]_vars

\* uploads with GET /klasifikasi
NextList ==
    \/ Upload(OneName, {1})
    \/ \E skip \in 0..MaxSkip, limit \in 0..MaxLimit : GetAllDataRecords(skip, limit)
    \/ GetAllDataCount

SpecList == Init /\ [][NextList]_vars

\* uploads with GET /statistik
NextStat ==
    \/ Upload(OneName, {1})
    \/ GetStatisticsTotal
    \/ GetStatisticsSehat
    \/ GetStatisticsSakit

SpecStat == Init /\ [][NextStat]_vars

\* ------------------------------------------------------------------ claims
\* upload request r returns its response in this step
Returns(r) == up[r].pc # "done" /\ up'[r].pc = "done"

\* a read handler answers in this step
Answers(kind) == rdResp' # rdResp /\ rdResp'.kind = kind

\* the part of a file name after its last dot (the whole name when it has no dot)
SuffixAfterLastDot(name) ==
    LET dots == { i \in 1..Len(name) : name[i] = "." }
        last == IF dots = {} THEN 0 ELSE CHOOSE i \in dots : \A j \in dots : j <= i
    IN  SubSeq(name, last + 1, Len(name))

SameIgnoringCase(s, t) ==
    /\ Len(s) = Len(t)
    /\ \A i \in 1..Len(s) : LowerChar(s[i]) = LowerChar(t[i])

ClaimedExtensions ==
    { <<"j", "p", "g">>, <<"j", "p", "e", "g">>, <<"p", "n", "g">>, <<"b", "m", "p">> }

ClaimedAllowed(name) ==
    \E e \in ClaimedExtensions : SameIgnoringCase(SuffixAfterLastDot(name), e)

ClaimedLabel(hasil) == IF hasil = 1 THEN "Sehat" ELSE "Sakit"

\* the bytes of the body of upload request r, of n chunks
Payload(r, n) == [i \in 1..n |-> <<r, i, n>>]

\* the first chunks of one body, and nothing else
PrefixOfOne(data) ==
    \/ data = <<>>
    \/ /\ Len(data) <= data[1][3]
       /\ \A i \in 1..Len(data) : data[i] = <<data[1][1], i, data[1][3]>>

\* all the chunks of one body
Complete(data) ==
    /\ Len(data) >= 1
    /\ data = Payload(data[1][1], data[1][3])

Between(r) == up[r].pc \in {"open", "copy", "commit", "refresh"}

\* C1: an upload with an allowed extension (the suffix after the last dot,
\* whatever its case) and label 0 or 1 is never rejected: it returns 201 from
\* its last step, with its own path and label and an id no earlier response
\* has, unless one of its storage or database operations raises (500).  A
\* GET /klasifikasi/{id} made after that 201, whatever was uploaded or read in
\* between, returns 200 with the path and label of the upload's response, and
\* no step removes or changes a row.
C1_UploadThenGetById ==
    [][ /\ \A r \in Requests :
              (Returns(r) /\ ClaimedAllowed(up[r].filename) /\ up[r].hasil \in {0, 1}) =>
                 /\ \/ up'[r].resp.status = 201 /\ up[r].pc = "refresh"
                    \/ up'[r].resp.status = 500 /\ Between(r)
                 /\ up'[r].resp.status = 201 =>
                       /\ up'[r].resp.path = <<"uploads", "/">> \o up[r].filename
                       /\ up'[r].resp.hasil = ClaimedLabel(up[r].hasil)
                       /\ \A q \in Requests :
                             up[q].resp.status = 201 => up[q].resp.id # up'[r].resp.id
        /\ \A r \in Requests :
              (/\ up[r].resp.status = 201
               /\ Answers("by_id")
               /\ rdResp'.request = up[r].resp.id) =>
                 /\ rdResp'.status = 200
                 /\ rdResp'.data.id = up[r].resp.id
                 /\ rdResp'.data.path = up[r].resp.path
                 /\ rdResp'.data.hasil = up[r].resp.hasil
        /\ records \subseteq records'
      ]_vars

\* C1's case: the first upload returned 201, a later upload returned 201 too,
\* and a GET by the first one's id shows the first one's path and label
C1_Witness ==
    \E r \in Requests, q \in Requests :
        /\ r < q
        /\ up[r].resp.status = 201
        /\ up[q].resp.status = 201
        /\ rdResp.kind = "by_id"
        /\ rdResp.request = up[r].resp.id
        /\ rdResp.status = 200
        /\ rdResp.data.path = up[r].resp.path
        /\ rdResp.data.hasil = up[r].resp.hasil

C3_BadLabelRejected ==
    [][ /\ \A r \in Requests :
              (Returns(r) /\ up[r].hasil \notin {0, 1}) =>
                 /\ up'[r].resp.status = 400
                 /\ UNCHANGED <<blobs, records, nextId>>
        /\ \A r \in Requests :
              (up'[r].pc \in {"open", "copy", "commit", "refresh"}) =>
                 up'[r].hasil \in {0, 1}
        /\ (Answers("by_status") /\ rdResp'.request \notin {0, 1}) =>
              /\ rdResp'.status = 400
              /\ UNCHANGED <<blobs, records, nextId>>
      ]_vars

\* C3's case: both endpoints have answered 400 to a bad label, the upload's
\* rejection coming when a file and a row were there to be harmed
C3_Witness ==
    /\ \E r \in Requests : up[r].resp = [status |-> 400, detail |-> "hasil"]
    /\ rdResp.kind = "by_status"
    /\ rdResp.request \notin {0, 1}
    /\ rdResp.status = 400
    /\ \E row \in records : Complete(blobs[row.path].data)

\* C4: in every reachable state the path of every committed row names a file
\* that is there and holds all the chunks of one upload's body.
C4_NoRowReferencesPartialBlob ==
    \A row \in records :
        /\ blobs[row.path].exists
        /\ Complete(blobs[row.path].data)

\* C5: an upload that ends with 500 has committed no row.
C5_FailedUploadCommitsNothing ==
    [][ \A r \in Requests :
           (Returns(r) /\ up'[r].resp.status = 500) =>
              /\ records' = records
              /\ ~\E row \in records' : row.id = up[r].newId
      ]_vars

\* C6: GET /klasifikasi answers with exactly the rows at positions
\* skip .. skip+limit-1 of the table (as its first query found it) in
\* descending id order, and total_data is the number of all its rows.
C6_PageOfDescendingIds ==
    [][ /\ (rd.pc = "idle" /\ rd'.pc = "count") => rd'.snap = records
        /\ (rd.pc = "count" /\ rd'.pc = "idle") =>
              LET all == rd.snap
                  d == rdResp'.data
                  left == Cardinality(all) - rd.skip
                  want == IF left < rd.limit THEN left ELSE rd.limit
              IN  /\ rdResp'.status = 200
                  /\ Len(d) = IF want < 0 THEN 0 ELSE want
                  /\ \A i \in 1..Len(d) :
                        \E row \in all :
                            /\ d[i].id = row.id
                            /\ d[i].path = row.path
                            /\ d[i].hasil = ClaimedLabel(row.hasil)
                            /\ Cardinality({ x \in all : x.id > row.id }) = rd.skip + i - 1
                  /\ rdResp'.total_data = Cardinality(all)
      ]_vars

\* C6's case: ids 1, 2, 3 are stored and the page is [3, 2]
C6_Witness ==
    /\ rdResp.kind = "list"
    /\ rdResp.total_data = 3
    /\ { row.id : row \in records } = {1, 2, 3}
    /\ Len(rdResp.data) = 2
    /\ rdResp.data[1].id = 3
    /\ rdResp.data[2].id = 2

Created == { r \in Requests : up[r].resp.status = 201 }

CreatedHealthy == { r \in Created : up[r].resp.hasil = "Sehat" }

Abs(x) == IF x < 0 THEN -x ELSE x

\* p, in hundredths of a percent, is part/total*100 rounded to two decimals
NearestHundredth(p, part, total) == 2 * Abs(p * total - part * 10000) <= total

\* C7: when the uploads so far are N that returned 201, k of them Healthy,
\* and others that were rejected (none is running, none ended with 500), a
\* GET /statistik during which nothing is committed reports total_data = N,
\* status_sehat = k, status_sakit = N - k and the two percentages rounded to
\* two decimals, both 0 when N = 0.
C7_StatisticsOfUploads ==
    [][ (/\ rd.pc = "sakit" /\ rd'.pc = "idle"
         /\ rd.snap = records
         /\ \A r \in Requests : up[r].pc \in {"none", "done"} /\ up[r].resp.status # 500) =>
           LET N == Cardinality(Created)
               k == Cardinality(CreatedHealthy)
               data == rdResp'
           IN  /\ data.status = 200
               /\ data.total_data = N
               /\ data.status_sehat = k
               /\ data.status_sakit = N - k
               /\ IF N = 0
                  THEN data.persentase_sehat = 0 /\ data.persentase_sakit = 0
                  ELSE /\ NearestHundredth(data.persentase_sehat, k, N)
                       /\ NearestHundredth(data.persentase_sakit, N - k, N)
      ]_vars

\* C7's case: three uploads returned 201, two of them Healthy: 66.67 and 33.33
C7_Witness ==
    /\ Cardinality(Created) = 3
    /\ Cardinality(CreatedHealthy) = 2
    /\ rdResp.kind = "statistik"
    /\ rdResp.total_data = 3
    /\ rdResp.status_sehat = 2
    /\ rdResp.status_sakit = 1
    /\ rdResp.persentase_sehat = 6667
    /\ rdResp.persentase_sakit = 3333

\* C8: GET /klasifikasi/{id} answers 200 with the row of that id when the
\* table has one and 404 when it has none, and changes nothing.
C8_GetByIdFindsOrNotFound ==
    [][ Answers("by_id") =>
           /\ IF \E row \in records : row.id = rdResp'.request
              THEN /\ rdResp'.status = 200
                   /\ \E row \in records :
                         /\ row.id = rdResp'.request
                         /\ rdResp'.data.id = row.id
                         /\ rdResp'.data.path = row.path
                         /\ rdResp'.data.hasil = ClaimedLabel(row.hasil)
              ELSE rdResp'.status = 404
           /\ UNCHANGED <<blobs, records, nextId>>
      ]_vars

\* C8's case: 404 for the id a failed upload had taken, while another id is stored
C8_Witness ==
    /\ rdResp.kind = "by_id"
    /\ rdResp.status = 404
    /\ rdResp.request < nextId
    /\ \E row \in records : row.id > rdResp.request

\* C9: a file in uploads never mixes the bytes of several bodies; only an
\* upload under that name changes it; an upload that has written its last
\* chunk, and one that returns 201, leaves exactly its own bytes there; the
\* 201 responses carry distinct ids and the path of their own file name, the
\* same path for the same name.
C9_LastWriterWins ==
    [][ /\ \A p \in Paths : blobs'[p].exists => PrefixOfOne(blobs'[p].data)
        /\ \A p \in Paths :
              blobs'[p] # blobs[p] =>
                 \E r \in Requests :
                    /\ up[r].pc \in {"open", "copy"}
                    /\ up'[r] # up[r]
                    /\ file_location(up[r].filename) = p
        /\ \A r \in Requests :
              (up[r].pc = "copy" /\ up'[r].pc = "commit") =>
                 blobs'[file_location(up[r].filename)] = File(Payload(r, up[r].n))
        /\ \A r \in Requests :
              (Returns(r) /\ up'[r].resp.status = 201) =>
                 /\ blobs'[file_location(up[r].filename)] = File(Payload(r, up[r].n))
                 /\ up'[r].resp.path = file_location(up[r].filename)
                 /\ \A q \in Requests :
                       up[q].resp.status = 201 => up[q].resp.id # up'[r].resp.id
      ]_vars

\* C9's case: two uploads of one name returned 201 with two ids and one path,
\* and the file there holds the bytes of the later one
C9_Witness ==
    \E r \in Requests, q \in Requests :
        /\ r < q
        /\ up[r].resp.status = 201
        /\ up[q].resp.status = 201
        /\ up[r].resp.path = up[q].resp.path
        /\ up[r].resp.id # up[q].resp.id
        /\ Complete(blobs[up[q].resp.path].data)
        /\ blobs[up[q].resp.path].data[1][1] = q

\* C10: in every response of GET /statistik, status_sehat + status_sakit = total_data.
C10_StatisticsAddUp ==
    rdResp.kind = "statistik" =>
        rdResp.status_sehat + rdResp.status_sakit = rdResp.total_data

\* C10's case: a row was committed after the handler's first count and before its last
C10_Witness ==
    /\ rd.pc = "sakit"
    /\ Cardinality(records) > rd.total
====
